---- MODULE Spec2Model ----
(***************************************************************************)
(* Token-based authorization control plane of voca_backend:                *)
(* the token store (apps/tokens/models.py), the operator surface that      *)
(* changes token status (apps/tokens/views.py, api/admin/views.py), the     *)
(* request middleware (apps/tokens/middleware.py) and the DRF              *)
(* authentication backend (api/base/authentication/permissions.py).        *)
(*                                                                         *)
(* Time is a discrete clock `now`; timedelta(hours=1) is HOUR ticks and     *)
(* timedelta(days=1) is DAY ticks.  Strings that the code inspects by      *)
(* prefix are pairs <<prefix, rest>>.                                      *)
(***************************************************************************)
EXTENDS Integers, Sequences, FiniteSets, TLC

\* ---------------------------------------------------------------- bounds
NReq == 2          \* requests the server handles at the same time
MaxLog == 2        \* ledger entries written by requests served one at a time
MaxTime == 2       \* last clock tick

\* ------------------------------------------------------ program constants
HOUR == 1          \* timezone.timedelta(hours=1), in ticks
DAY == 2           \* timezone.timedelta(days=1), in ticks
Null == -1         \* a nullable column holding NULL (expires_at, max_usage_count)

NoToken == [token_type |-> "none", token_id |-> 0, token_name |-> "none"]
NoPerm == [model_name |-> "none", can_create |-> FALSE, can_read |-> FALSE,
           can_update |-> FALSE, can_delete |-> FALSE, can_list |-> FALSE,
           restricted_fields |-> {}, readonly_fields |-> {}]

\* No permissions call is in progress.
NoReplace == [pc |-> "idle", pk |-> 0, permissions_data |-> <<>>, created |-> 0,
              before |-> {}, status |-> 0]

\* -------------------------------------------------------------- the store
VARIABLES
    mobile_tokens,      \* table mobile_app_tokens: id -> row
    api_tokens,         \* table api_client_tokens: id -> row
    model_permissions,  \* table token_model_permissions: <<token id, model>> -> entry
    usage_log,          \* table token_usage_logs, in insertion order
    now,                \* the wall clock
    req,                \* the pipeline requests: position and request attributes
    drf,                \* per slot: usage_count of the row TokenBasedAuthentication loaded
    metered,            \* number of authenticated calls metered per token (history)
    records,            \* the tables of the served models: model -> rows, by primary key
    replace             \* the permissions call of the operator: position and request data

vars == <<mobile_tokens, api_tokens, model_permissions, usage_log, now, req, drf, metered,
          records, replace>>

Reqs == 1..NReq
IPs == {"10.0.0.1", "10.0.0.2"}
Methods == {"GET", "POST", "PUT", "PATCH", "DELETE", "HEAD", "OPTIONS"}

\* The secrets the store hands out, and the credentials clients present:
\* the stored secrets, two well-formed secrets no row holds, and a JWT.
MobileSecret == <<"mob_", 1>>
APISecret == <<"api_", 1>>
Credentials == {MobileSecret, APISecret, <<"mob_", 2>>, <<"api_", 2>>, <<"eyJ", 1>>}

\* an Authorization header that is absent or not "Bearer ..."
NoBearer == <<"", 0>>

\* str.startswith on a credential
startswith(value, prefix) == value[1] = prefix

\* Request paths and what the URL resolver knows about them: the admin site, the
\* Word viewset (list and detail), the UserProgress viewset, and a view that
\* serves no model.
Paths == {"/admin/tokens/", "/api/cruds/vocabulary/words/", "/api/cruds/vocabulary/words/1/",
          "/api/cruds/progress/user-progress/", "/api/tokens/stats/"}

\* any(request.path.startswith(p) for p in EXEMPT_PATHS)
EXEMPT_PATHS(path) == path = "/admin/tokens/"

\* resolve(request.path).url_name
url_name(path) ==
    CASE path = "/api/cruds/vocabulary/words/" -> "word-list"
      [] path = "/api/cruds/vocabulary/words/1/" -> "word-detail"
      [] path = "/api/cruds/progress/user-progress/" -> "user-progress-list"
      [] path = "/api/cruds/progress/user-progress/1/" -> "user-progress-detail"
      [] path = "/api/tokens/stats/" -> "token-stats"
      [] OTHER -> "admin"

\* The model whose records the route's view serves (get_queryset), "none" for a
\* view that serves no model.
route_model(path) ==
    CASE path \in {"/api/cruds/vocabulary/words/", "/api/cruds/vocabulary/words/1/"} -> "Word"
      [] path \in {"/api/cruds/progress/user-progress/",
                   "/api/cruds/progress/user-progress/1/"} -> "UserProgress"
      [] OTHER -> "none"

\* view_class.queryset.model.__name__ as process_view evaluates it: the model's
\* name for a viewset with a class-level queryset; "raises" for a viewset that
\* only overrides get_queryset (queryset is None: AttributeError); "none" for a
\* view without cls or without a queryset attribute.
view_model(path) ==
    CASE path \in {"/api/cruds/vocabulary/words/", "/api/cruds/vocabulary/words/1/"} -> "Word"
      [] path \in {"/api/cruds/progress/user-progress/",
                   "/api/cruds/progress/user-progress/1/"} -> "raises"
      [] OTHER -> "none"

\* 'list' in resolved.url_name
list_in_url_name(path) == url_name(path) \in {"word-list", "user-progress-list"}


\* ------------------------------------------------------- token validation

\* is_valid that still accepts a token whose usage_count equals max_usage_count
is_valid_gt(token) ==
    IF token.status # "active" THEN FALSE
    ELSE IF token.expires_at # Null /\ token.expires_at <= now THEN FALSE
    ELSE IF (token.max_usage_count # Null /\ token.max_usage_count # 0)
            /\ token.usage_count > token.max_usage_count THEN FALSE
    ELSE TRUE

\* MobileAppToken.is_valid / APIClientToken.is_valid (the two bodies are the same)
is_valid(token) ==
    IF token.status # "active" THEN FALSE
    ELSE IF token.expires_at # Null /\ token.expires_at <= now THEN FALSE
    ELSE IF (token.max_usage_count # Null /\ token.max_usage_count # 0)
            /\ token.usage_count >= token.max_usage_count THEN FALSE
    ELSE TRUE

\* usage_since with timestamp__gt: an entry exactly `since` old is not counted
usage_since_gt(token_id, since) ==
    Cardinality({i \in DOMAIN usage_log :
                    /\ usage_log[i].token_type = "api"
                    /\ usage_log[i].token_id = token_id
                    /\ usage_log[i].timestamp > since})

\* TokenUsageLog.objects.filter(token_type='api', token_id=..., timestamp__gte=since).count()
usage_since(token_id, since) ==
    Cardinality({i \in DOMAIN usage_log :
                    /\ usage_log[i].token_type = "api"
                    /\ usage_log[i].token_id = token_id
                    /\ usage_log[i].timestamp >= since})

\* check_rate_limits that rejects only above the limit (> for >=)
check_rate_limits_above(token) ==
    IF usage_since(token.id, now - HOUR) > token.rate_limit_per_hour
    THEN [allowed |-> FALSE, error |-> "Hourly rate limit exceeded"]
    ELSE IF usage_since(token.id, now - DAY) > token.rate_limit_per_day
    THEN [allowed |-> FALSE, error |-> "Daily rate limit exceeded"]
    ELSE [allowed |-> TRUE, error |-> ""]

\* TokenAuthenticationMiddleware.check_rate_limits
check_rate_limits(token) ==
    IF usage_since(token.id, now - HOUR) >= token.rate_limit_per_hour
    THEN [allowed |-> FALSE, error |-> "Hourly rate limit exceeded"]
    ELSE IF usage_since(token.id, now - DAY) >= token.rate_limit_per_day
    THEN [allowed |-> FALSE, error |-> "Daily rate limit exceeded"]
    ELSE [allowed |-> TRUE, error |-> ""]

\* Model.objects.get(token=token_value): the ids of the matching rows (at most one)
get_by_token(table, token_value) == {i \in DOMAIN table : table[i].token = token_value}

Invalid(error) ==
    [valid |-> FALSE, error |-> error, token_type |-> "none", token_id |-> 0,
     token_name |-> "none"]

\* TokenAuthenticationMiddleware.validate_token, after the row was found
validate_found(token, token_type, ip_address, endpoint) ==
    IF ~is_valid(token) THEN Invalid("Token is expired or inactive")
    ELSE IF token.allowed_ips # {} /\ ip_address \notin token.allowed_ips
    THEN Invalid("IP address not allowed")
    ELSE IF token_type = "api" /\ token.allowed_endpoints # {}
            /\ endpoint \notin token.allowed_endpoints
    THEN Invalid("Endpoint not allowed")
    ELSE IF token_type = "api" /\ ~check_rate_limits(token).allowed
    THEN Invalid(check_rate_limits(token).error)
    ELSE [valid |-> TRUE, error |-> "", token_type |-> token_type,
          token_id |-> token.id, token_name |-> token.name,
          role |-> IF token_type = "mobile" THEN token.role ELSE "",
          client_name |-> IF token_type = "api" THEN token.client_name ELSE ""]

\* TokenAuthenticationMiddleware.validate_token
validate_token(token_value, ip_address, endpoint) ==
    IF startswith(token_value, "mob_")
    THEN IF get_by_token(mobile_tokens, token_value) = {}
         THEN Invalid("Mobile token not found")
         ELSE validate_found(mobile_tokens[CHOOSE i \in get_by_token(mobile_tokens, token_value) : TRUE],
                             "mobile", ip_address, endpoint)
    ELSE IF startswith(token_value, "api_")
    THEN IF get_by_token(api_tokens, token_value) = {}
         THEN Invalid("API token not found")
         ELSE validate_found(api_tokens[CHOOSE i \in get_by_token(api_tokens, token_value) : TRUE],
                             "api", ip_address, endpoint)
    ELSE Invalid("Invalid token format")


\* ------------------------------------------------------------ the requests

\* HTTP_X_FORWARDED_FOR as clients and proxies send it: absent, or a list of addresses
ForwardedFor ==
    {<<>>, <<"10.0.0.1">>, <<"10.0.0.2">>, <<"10.0.0.1", "10.0.0.2">>,
     <<"10.0.0.2", "10.0.0.1">>}

\* TokenAuthenticationMiddleware.get_client_ip
get_client_ip(x_forwarded_for, remote_addr) ==
    IF x_forwarded_for # <<>> THEN x_forwarded_for[1] ELSE remote_addr

\* The requests clients send: the attributes the two middlewares read on entry
\* (ip is what get_client_ip makes of the forwarded-for header and the remote address).
Requests ==
    {[token_value |-> token_value, ip |-> get_client_ip(x_forwarded_for, remote_addr),
      path |-> path, authenticated |-> authenticated] :
        token_value \in Credentials \cup {NoBearer}, x_forwarded_for \in ForwardedFor,
        remote_addr \in IPs, path \in Paths, authenticated \in BOOLEAN}

\* A request slot of the server: idle, or the position of the request in the
\* middleware chain with what the hooks attached to it.
\*   path                 kept while a later hook still reads it
\*   start                request._token_start_time
\*   status, message      the response
\*   action, payload      the viewset action that served the request and the
\*                        field names in the data of its response
\*   in_flight            history: requests of the same token that had passed
\*                        validate_token and were not yet logged when this one passed
Blank ==
    [pc |-> "idle", token_data |-> NoToken, path |-> "", start |-> Null,
     status |-> 0, message |-> "", handler_ran |-> FALSE,
     token_permissions |-> NoPerm, in_flight |-> 0, action |-> "", payload |-> {}]

InFlight(token_data) ==
    {q \in Reqs : req[q].token_data = token_data /\ req[q].pc \in {"view", "handler", "response"}}

\* skips_authentication that also lets a prefixed credential no row holds through
skips_unknown(request) ==
    \/ EXEMPT_PATHS(request.path)
    \/ request.authenticated
    \/ request.token_value = NoBearer
    \/ startswith(request.token_value, "mob_")
          /\ get_by_token(mobile_tokens, request.token_value) = {}
    \/ startswith(request.token_value, "api_")
          /\ get_by_token(api_tokens, request.token_value) = {}

\* TokenAuthenticationMiddleware.process_request: the early returns
skips_authentication(request) ==
    \/ EXEMPT_PATHS(request.path)
    \/ request.authenticated
    \/ request.token_value = NoBearer

\* token data attached without the id of the row
attached_unidentified(token_data) ==
    [token_type |-> token_data.token_type, token_id |-> 0,
     token_name |-> token_data.token_name]

\* request.token_data as process_request attaches it
attached(token_data) ==
    [token_type |-> token_data.token_type, token_id |-> token_data.token_id,
     token_name |-> token_data.token_name]

\* TokenAuthenticationMiddleware.process_request: the slot after the hook.
\* A 401 goes straight to the response hooks; otherwise the view hooks come next.
process_request(request) ==
    IF skips_authentication(request)
    THEN [Blank EXCEPT !.pc = "view"]
    ELSE LET token_data == validate_token(request.token_value, request.ip, request.path) IN
         IF ~token_data.valid
         THEN [Blank EXCEPT !.pc = "response", !.start = now, !.status = 401,
                            !.message = token_data.error]
         ELSE [Blank EXCEPT !.pc = "view", !.start = now,
                            !.path = IF token_data.token_type = "api" THEN request.path ELSE "",
                            !.token_data = attached(token_data),
                            !.in_flight = Cardinality(InFlight(attached(token_data)))]

ProcessRequest(r, request) ==
    /\ req[r].pc = "idle"
    /\ req' = [req EXCEPT ![r] = process_request(request)]
    /\ UNCHANGED <<mobile_tokens, api_tokens, model_permissions, usage_log, now, drf, metered, records, replace>>

\* TokenPermissionMiddleware.process_view: the capability the method needs
\* (TRUE when no branch of the if/elif chain matches the method)
method_allowed(permission, method, path) ==
    IF method = "GET" /\ list_in_url_name(path) THEN permission.can_list
    ELSE IF method = "GET" THEN permission.can_read
    ELSE IF method = "POST" THEN permission.can_create
    ELSE IF method \in {"PUT", "PATCH"} THEN permission.can_update
    ELSE IF method = "DELETE" THEN permission.can_delete
    ELSE TRUE

Denied(slot, status, message) ==
    [slot EXCEPT !.pc = "response", !.path = "", !.status = status, !.message = message]

\* process_view that answers 403 when the model of the view cannot be resolved
process_view_fails_closed(slot, method) ==
    LET model_name == view_model(slot.path)
        token_id == slot.token_data.token_id
    IN  IF slot.token_data.token_type # "api" THEN [slot EXCEPT !.pc = "handler", !.path = ""]
        ELSE IF model_name = "none" THEN [slot EXCEPT !.pc = "handler", !.path = ""]
        ELSE IF model_name = "raises" THEN Denied(slot, 403, "Permission denied")
        ELSE IF token_id \notin DOMAIN api_tokens
        THEN Denied(slot, 401, "API token not found")
        ELSE IF <<token_id, model_name>> \notin DOMAIN model_permissions
        THEN Denied(slot, 403, "Token does not have permissions")
        ELSE IF ~method_allowed(model_permissions[<<token_id, model_name>>], method, slot.path)
        THEN Denied(slot, 403, "Token does not have the permission")
        ELSE [slot EXCEPT !.pc = "handler", !.path = "",
                          !.token_permissions = model_permissions[<<token_id, model_name>>]]

\* TokenPermissionMiddleware.process_view: the slot after the hook
process_view(slot, method) ==
    LET model_name == view_model(slot.path)
        token_id == slot.token_data.token_id
    IN  IF slot.token_data.token_type # "api" THEN [slot EXCEPT !.pc = "handler", !.path = ""]
        ELSE IF model_name = "none" THEN [slot EXCEPT !.pc = "handler", !.path = ""]
        \* except Exception: pass
        ELSE IF model_name = "raises" THEN [slot EXCEPT !.pc = "handler", !.path = ""]
        ELSE IF token_id \notin DOMAIN api_tokens
        THEN Denied(slot, 401, "API token not found")
        ELSE IF <<token_id, model_name>> \notin DOMAIN model_permissions
        THEN Denied(slot, 403, "Token does not have permissions")
        ELSE IF ~method_allowed(model_permissions[<<token_id, model_name>>], method, slot.path)
        THEN Denied(slot, 403, "Token does not have the permission")
        ELSE [slot EXCEPT !.pc = "handler", !.path = "",
                          !.token_permissions = model_permissions[<<token_id, model_name>>]]

ProcessView(r, method) ==
    /\ req[r].pc = "view"
    /\ req' = [req EXCEPT ![r] = process_view(req[r], method)]
    /\ UNCHANGED <<mobile_tokens, api_tokens, model_permissions, usage_log, now, drf, metered, records, replace>>

\* The application handler (a collaborator): it answers with some status.
Handler(r, status) ==
    /\ req[r].pc = "handler"
    /\ req' = [req EXCEPT ![r].pc = "response", ![r].status = status,
                          ![r].handler_ran = TRUE]
    /\ UNCHANGED <<mobile_tokens, api_tokens, model_permissions, usage_log, now, drf, metered, records, replace>>

\* ------------------------------------------------------ the model viewsets

\* The action the router of a model viewset maps a method on a path to ("none"
\* for a pair it does not serve).
routed_action(method, path) ==
    IF route_model(path) = "none" THEN "none"
    ELSE IF list_in_url_name(path)
    THEN CASE method = "GET" -> "list" [] method = "POST" -> "create" [] OTHER -> "none"
    ELSE CASE method = "GET" -> "retrieve" [] method = "PUT" -> "update"
           [] method = "PATCH" -> "partial_update" [] method = "DELETE" -> "destroy"
           [] OTHER -> "none"

\* Meta.fields of the serializer of a model: two of its writable columns
serializer_fields(model_name) ==
    CASE model_name = "Word" -> {"word", "etymology"}
      [] model_name = "UserProgress" -> {"status", "ease_factor"}
      [] OTHER -> {}

Values == {0, 1}

\* request.data of a write: values for some fields of the model
Payloads(model_name) ==
    UNION {[fields -> Values] : fields \in SUBSET serializer_fields(model_name)}

\* A row as the model creates it, before the serializer's data is saved on it
DefaultRow(model_name) ==
    [deleted |-> FALSE, values |-> [field \in serializer_fields(model_name) |-> 0]]

\* TokenPermissionMixin.get_serializer: the fields of the serializer the viewset
\* works with.  With many=True the serializer is a ListSerializer, which has no
\* `fields`: looking a restricted or read-only field up in it raises.
get_serializer(slot, model_name, many) ==
    LET permission == slot.token_permissions
        declared == serializer_fields(model_name)
    IN  IF slot.token_permissions = NoPerm
        THEN [raises |-> FALSE, fields |-> declared, read_only |-> {}]
        ELSE IF many /\ (permission.restricted_fields # {} \/ permission.readonly_fields # {})
        THEN [raises |-> TRUE, fields |-> {}, read_only |-> {}]
        ELSE [raises |-> FALSE, fields |-> declared \ permission.restricted_fields,
              read_only |-> permission.readonly_fields
                                \cap (declared \ permission.restricted_fields)]

\* serializer.save(): the row with the writable fields of the data set on it
save(row, serializer, data) ==
    [row EXCEPT !.values = [field \in DOMAIN row.values |->
        IF field \in DOMAIN data /\ field \in serializer.fields \ serializer.read_only
        THEN data[field] ELSE row.values[field]]]

\* get_object() of a detail route: the row with primary key 1 is there
get_object(rows) == Len(rows) >= 1 /\ ~rows[1].deleted

Served(status, action, payload, rows) ==
    [status |-> status, action |-> action, payload |-> payload, rows |-> rows]

\* BaseModelViewSet: list, retrieve, create, update, partial_update and destroy
\* on the rows of the viewset's model
view_response(slot, method, path, data) ==
    LET model_name == route_model(path)
        action == routed_action(method, path)
        rows == records[model_name]
        serializer == get_serializer(slot, model_name, FALSE)
    IN  CASE action = "list" ->
               IF get_serializer(slot, model_name, TRUE).raises
               THEN Served(500, action, {}, rows)
               ELSE Served(200, action, get_serializer(slot, model_name, TRUE).fields, rows)
          [] action = "retrieve" ->
               IF ~get_object(rows) THEN Served(404, action, {}, rows)
               ELSE Served(200, action, serializer.fields, rows)
          [] action = "create" ->
               Served(201, action, serializer.fields,
                      Append(rows, save(DefaultRow(model_name), serializer, data)))
          [] action \in {"update", "partial_update"} ->
               IF ~get_object(rows) THEN Served(404, action, {}, rows)
               ELSE Served(200, action, serializer.fields,
                           [rows EXCEPT ![1] = save(rows[1], serializer, data)])
          [] action = "destroy" ->
               IF ~get_object(rows) THEN Served(404, action, {}, rows)
               ELSE Served(204, action, {}, [rows EXCEPT ![1].deleted = TRUE])
          [] OTHER -> Served(405, "", {}, rows)

\* The view call of a request to a model viewset: process_view, then the
\* viewset's permission_classes (IsAuthenticated: `permitted` is its answer),
\* then the action.
GetResponse(r, method, data, permitted) ==
    /\ req[r].pc = "view"
    /\ route_model(req[r].path) # "none"
    /\ LET slot == process_view(req[r], method)
           response == view_response(slot, method, req[r].path, data)
       IN  IF slot.pc # "handler"
           THEN /\ req' = [req EXCEPT ![r] = slot]
                /\ UNCHANGED records
           ELSE IF ~permitted
           THEN /\ req' = [req EXCEPT ![r] = [slot EXCEPT !.pc = "response", !.status = 403]]
                /\ UNCHANGED records
           ELSE /\ req' = [req EXCEPT ![r] =
                             [slot EXCEPT !.pc = "response", !.status = response.status,
                                          !.handler_ran = TRUE, !.action = response.action,
                                          !.payload = response.payload]]
                /\ records' = [records EXCEPT ![route_model(req[r].path)] = response.rows]
    /\ UNCHANGED <<mobile_tokens, api_tokens, model_permissions, usage_log, now, drf, metered, replace>>

\* Model.objects.filter(id=token_id).update(usage_count=F('usage_count') + 1)
increment_F(table, token_id) ==
    [i \in DOMAIN table |->
        IF i = token_id THEN [table[i] EXCEPT !.usage_count = @ + 1] ELSE table[i]]

\* TokenAuthenticationMiddleware.process_response: hasattr(request, 'token_data') and
\* hasattr(request, '_token_start_time')
logs_usage(slot) == slot.token_data # NoToken /\ slot.start # Null

\* log_entry that records status 200 whatever the response
log_entry_200(slot) ==
    [token_type |-> slot.token_data.token_type, token_id |-> slot.token_data.token_id,
     token_name |-> slot.token_data.token_name, status_code |-> 200,
     timestamp |-> now]

\* TokenUsageLog.objects.create(...) in log_token_usage: the columns the limiter
\* and the audit read
log_entry(slot) ==
    [token_type |-> slot.token_data.token_type, token_id |-> slot.token_data.token_id,
     token_name |-> slot.token_data.token_name, status_code |-> slot.status,
     timestamp |-> now]

\* The slot of a request that was answered: what later requests are compared with.
Answered(slot) ==
    [Blank EXCEPT !.pc = "done", !.token_data = slot.token_data,
                  !.start = IF slot.token_data = NoToken THEN Null ELSE slot.start,
                  !.in_flight = slot.in_flight]

\* What can go wrong in log_token_usage: nothing, the insert of the ledger
\* entry raises, or the update of usage_count raises.
Faults == {"none", "create", "update"}

\* process_response whose log_token_usage does not catch: the failure reaches
\* the client as a 500
process_response_raises(slot, fault) ==
    [status |-> IF logs_usage(slot) /\ fault # "none" THEN 500 ELSE slot.status,
     logged |-> logs_usage(slot) /\ fault # "create",
     counted |-> logs_usage(slot) /\ fault = "none"]

\* TokenAuthenticationMiddleware.process_response with log_token_usage: the
\* status of the response it returns, and which of the two statements of
\* log_token_usage took effect (try ... except Exception: logger.error)
process_response(slot, fault) ==
    [status |-> slot.status,
     logged |-> logs_usage(slot) /\ fault # "create",
     counted |-> logs_usage(slot) /\ fault = "none"]

\* TokenAuthenticationMiddleware.process_response with log_token_usage.  The insert
\* and the update are two statements; a validate_token that runs between them
\* decides as it would before both or after both.
ProcessResponse(r, fault) ==
    /\ req[r].pc = "response"
    /\ req' = [req EXCEPT ![r] = Answered(req[r])]
    /\ usage_log' = IF process_response(req[r], fault).logged
                    THEN Append(usage_log, log_entry(req[r])) ELSE usage_log
    /\ IF process_response(req[r], fault).counted
       THEN /\ mobile_tokens' = IF req[r].token_data.token_type = "mobile"
                                THEN increment_F(mobile_tokens, req[r].token_data.token_id)
                                ELSE mobile_tokens
            /\ api_tokens' = IF req[r].token_data.token_type = "api"
                             THEN increment_F(api_tokens, req[r].token_data.token_id)
                             ELSE api_tokens
            /\ metered' = [metered EXCEPT ![req[r].token_data.token_id] = @ + 1]
       ELSE UNCHANGED <<mobile_tokens, api_tokens, metered>>
    /\ UNCHANGED <<model_permissions, now, drf, records, replace>>

\* The worker that answered a request takes the next one.
Recycle(r) ==
    /\ req[r].pc = "done"
    /\ req' = [req EXCEPT ![r] = Blank]
    /\ UNCHANGED <<mobile_tokens, api_tokens, model_permissions, usage_log, now, drf, metered, records, replace>>

\* The wall clock advances.
Tick ==
    /\ now < MaxTime
    /\ now' = now + 1
    /\ UNCHANGED <<mobile_tokens, api_tokens, model_permissions, usage_log, req, drf, metered, records, replace>>

\* ------------------------------------------- the DRF authentication backend

\* Model.objects.get(token=token, status='active')
get_active(table, token_value) ==
    {i \in DOMAIN table : table[i].token = token_value /\ table[i].status = "active"}

\* any(endpoint in request_path for endpoint in allowed_endpoints): the routes of
\* Paths are not substrings of one another except the Word list route
endpoint_in_path(endpoint, request_path) ==
    \/ endpoint = request_path
    \/ endpoint = "/api/cruds/vocabulary/words/" /\ request_path = "/api/cruds/vocabulary/words/1/"

\* authenticate_mobile_token / authenticate_api_token up to the usage log:
\* the error raised, or "" when the token is accepted
authentication_failed(token, token_type, request) ==
    IF ~is_valid(token) THEN "Token has expired or exceeded usage limit."
    ELSE IF token.allowed_ips # {} /\ request.ip \notin token.allowed_ips
    THEN "Access denied from this IP address."
    ELSE IF token_type = "api" /\ token.allowed_endpoints # {}
            /\ ~\E endpoint \in token.allowed_endpoints : endpoint_in_path(endpoint, request.path)
    THEN "Access denied to this endpoint."
    ELSE ""

\* TokenBasedAuthentication.authenticate_credentials: the table the prefix selects
credentials_table(token_value) ==
    IF startswith(token_value, "mob_") THEN mobile_tokens ELSE api_tokens

credentials_type(token_value) ==
    IF startswith(token_value, "mob_") THEN "mobile" ELSE "api"

\* TokenBasedAuthentication.authenticate for a prefixed bearer credential, up to
\* and including the usage log row: the token row is loaded into the worker.
Authenticate(r, request) ==
    /\ req[r].pc = "idle"
    /\ startswith(request.token_value, "mob_") \/ startswith(request.token_value, "api_")
    /\ LET table == credentials_table(request.token_value)
           token_type == credentials_type(request.token_value)
           found == get_active(table, request.token_value)
       IN  IF found = {}
           THEN /\ req' = [req EXCEPT ![r] = [Blank EXCEPT !.pc = "response", !.status = 401,
                                                         !.message = "Invalid token."]]
                /\ UNCHANGED <<usage_log, drf>>
           ELSE LET token == table[CHOOSE i \in found : TRUE] IN
                IF authentication_failed(token, token_type, request) # ""
                THEN /\ req' = [req EXCEPT ![r] =
                                  [Blank EXCEPT !.pc = "response", !.status = 401,
                                                !.message = authentication_failed(token, token_type, request)]]
                     /\ UNCHANGED <<usage_log, drf>>
                ELSE /\ req' = [req EXCEPT ![r] =
                                  [Blank EXCEPT !.pc = "increment_usage",
                                                !.token_data = [token_type |-> token_type,
                                                                token_id |-> token.id,
                                                                token_name |-> token.name]]]
                     /\ usage_log' = Append(usage_log,
                                            [token_type |-> token_type, token_id |-> token.id,
                                             token_name |-> token.name, status_code |-> 200,
                                             timestamp |-> now])
                     /\ drf' = [drf EXCEPT ![r] = token.usage_count]
    /\ UNCHANGED <<mobile_tokens, api_tokens, model_permissions, now, metered, records, replace>>

\* self.usage_count += 1; self.save(update_fields=['usage_count', 'last_used_at'])
\* on the loaded row (an UPDATE ... WHERE id = pk: no row, no effect)
save_usage_count(table, token_id, usage_count) ==
    [i \in DOMAIN table |->
        IF i = token_id THEN [table[i] EXCEPT !.usage_count = usage_count] ELSE table[i]]

\* MobileAppToken.increment_usage / APIClientToken.increment_usage as the backend
\* calls it; the view then runs with the token's identity.
IncrementUsage(r) ==
    /\ req[r].pc = "increment_usage"
    /\ mobile_tokens' = IF req[r].token_data.token_type = "mobile"
                        THEN save_usage_count(mobile_tokens, req[r].token_data.token_id, drf[r] + 1)
                        ELSE mobile_tokens
    /\ api_tokens' = IF req[r].token_data.token_type = "api"
                     THEN save_usage_count(api_tokens, req[r].token_data.token_id, drf[r] + 1)
                     ELSE api_tokens
    /\ metered' = [metered EXCEPT ![req[r].token_data.token_id] = @ + 1]
    /\ drf' = [drf EXCEPT ![r] = Null]
    /\ req' = [req EXCEPT ![r] = [pc |-> "done"] @@ Blank]
    /\ UNCHANGED <<model_permissions, usage_log, now, records, replace>>

\* ------------------------------------------------- the validation endpoint

\* request.data of POST /api/tokens/validate/: the token, and optionally the
\* endpoint and the address to check it for ("" when the field is left out)
ValidationData ==
    {[token |-> token, endpoint |-> endpoint, ip_address |-> ip_address] :
        token \in {MobileSecret, APISecret, <<"api_", 2>>, <<"eyJ", 1>>},
        endpoint \in {"", "/api/cruds/vocabulary/words/"},
        ip_address \in {"", "10.0.0.2"}}

\* TokenValidationView.post up to increment_usage: the status of the refusal,
\* or 200 when the token is accepted
validation_status(data) ==
    LET token_type == credentials_type(data.token)
        table == credentials_table(data.token)
        found == get_by_token(table, data.token)
    IN  IF ~(startswith(data.token, "mob_") \/ startswith(data.token, "api_")) THEN 400
        ELSE IF found = {} THEN 401
        ELSE LET token == table[CHOOSE i \in found : TRUE] IN
             IF ~is_valid(token) THEN 401
             ELSE IF token.allowed_ips # {} /\ data.ip_address # ""
                     /\ data.ip_address \notin token.allowed_ips THEN 403
             ELSE IF token_type = "api" /\ data.endpoint # "" /\ token.allowed_endpoints # {}
                     /\ data.endpoint \notin token.allowed_endpoints THEN 403
             ELSE 200

\* TokenValidationView.post up to increment_usage.  The path is exempt from the
\* middleware, so a refused call leaves no trace; an accepted call has loaded
\* the token row into the worker.
PostValidation(r, data) ==
    /\ req[r].pc = "idle"
    /\ IF validation_status(data) # 200
       THEN /\ req' = [req EXCEPT ![r] = [Blank EXCEPT !.pc = "done"]]
            /\ UNCHANGED drf
       ELSE LET table == credentials_table(data.token)
                token == table[CHOOSE i \in get_by_token(table, data.token) : TRUE]
            IN  /\ req' = [req EXCEPT ![r] =
                              [Blank EXCEPT !.pc = "increment_usage",
                                            !.path = "/api/tokens/validate/",
                                            !.token_data = [token_type |-> credentials_type(data.token),
                                                            token_id |-> token.id,
                                                            token_name |-> token.name]]]
                /\ drf' = [drf EXCEPT ![r] = token.usage_count]
    /\ UNCHANGED <<mobile_tokens, api_tokens, model_permissions, usage_log, now, metered, records, replace>>

\* ----------------------------------------------------- the operator surface

MobileId == 1
APIId == 2
TokenIds == {MobileId, APIId}

\* queryset.update(status=...) on the rows whose id is in token_ids
update_status(table, token_ids, status) ==
    [i \in DOMAIN table |->
        IF i \in token_ids THEN [table[i] EXCEPT !.status = status] ELSE table[i]]

\* queryset.delete() on the rows whose id is in token_ids
delete_rows(table, token_ids) == [i \in DOMAIN table \ token_ids |-> table[i]]

\* on_delete=CASCADE of TokenModelPermission.token
delete_permissions(token_ids) ==
    [k \in {k \in DOMAIN model_permissions : k[1] \notin token_ids} |-> model_permissions[k]]

\* MobileAppTokenViewSet.activate / APIClientTokenViewSet.activate:
\* the status the row is saved with
activate_status(token) == "active"

\* MobileAppTokenViewSet.activate
MobileActivate(pk) ==
    /\ pk \in DOMAIN mobile_tokens
    /\ mobile_tokens' = update_status(mobile_tokens, {pk}, activate_status(mobile_tokens[pk]))
    /\ UNCHANGED <<api_tokens, model_permissions, usage_log, now, req, drf, metered, records, replace>>

\* APIClientTokenViewSet.activate
APIActivate(pk) ==
    /\ pk \in DOMAIN api_tokens
    /\ api_tokens' = update_status(api_tokens, {pk}, activate_status(api_tokens[pk]))
    /\ UNCHANGED <<mobile_tokens, model_permissions, usage_log, now, req, drf, metered, records, replace>>

\* MobileAppTokenViewSet.revoke
MobileRevoke(pk) ==
    /\ pk \in DOMAIN mobile_tokens
    /\ mobile_tokens' = update_status(mobile_tokens, {pk}, "revoked")
    /\ UNCHANGED <<api_tokens, model_permissions, usage_log, now, req, drf, metered, records, replace>>

\* APIClientTokenViewSet.revoke
APIRevoke(pk) ==
    /\ pk \in DOMAIN api_tokens
    /\ api_tokens' = update_status(api_tokens, {pk}, "revoked")
    /\ UNCHANGED <<mobile_tokens, model_permissions, usage_log, now, req, drf, metered, records, replace>>

\* bulk_action / AdminTokenManagementView.post: the table after the action
bulk_result(table, token_ids, action_type) ==
    CASE action_type = "activate" -> update_status(table, token_ids, "active")
      [] action_type = "deactivate" -> update_status(table, token_ids, "inactive")
      [] action_type = "revoke" -> update_status(table, token_ids, "revoked")
      [] action_type = "delete" -> delete_rows(table, token_ids)

\* MobileAppTokenViewSet.bulk_action
MobileBulkAction(token_ids, action_type) ==
    /\ token_ids \cap DOMAIN mobile_tokens # {}
    /\ mobile_tokens' = bulk_result(mobile_tokens, token_ids, action_type)
    /\ UNCHANGED <<api_tokens, model_permissions, usage_log, now, req, drf, metered, records, replace>>

\* APIClientTokenViewSet.bulk_action
APIBulkAction(token_ids, action_type) ==
    /\ token_ids \cap DOMAIN api_tokens # {}
    /\ api_tokens' = bulk_result(api_tokens, token_ids, action_type)
    /\ model_permissions' = IF action_type = "delete"
                            THEN delete_permissions(token_ids \cap DOMAIN api_tokens)
                            ELSE model_permissions
    /\ UNCHANGED <<mobile_tokens, usage_log, now, req, drf, metered, records, replace>>

\* AdminTokenManagementView.post (api/admin/views.py)
AdminTokenAction(token_type, token_ids, action) ==
    /\ action \in {"activate", "deactivate", "revoke"}
    /\ IF token_type = "mobile"
       THEN /\ token_ids \cap DOMAIN mobile_tokens # {}
            /\ mobile_tokens' = bulk_result(mobile_tokens, token_ids, action)
            /\ UNCHANGED api_tokens
       ELSE /\ token_ids \cap DOMAIN api_tokens # {}
            /\ api_tokens' = bulk_result(api_tokens, token_ids, action)
            /\ UNCHANGED mobile_tokens
    /\ UNCHANGED <<model_permissions, usage_log, now, req, drf, metered, records, replace>>

\* generate_token(): the secrets a rotation can draw for a row, a fresh value
\* with the prefix of the table that no row holds
generate_token(table, prefix) ==
    {token_value \in Credentials :
        /\ startswith(token_value, prefix)
        /\ get_by_token(table, token_value) = {}}

\* regenerate that saves the whole row it built anew: the counter starts over
regenerate_resets(table, pk, new_token) ==
    [table EXCEPT ![pk].token = new_token, ![pk].usage_count = 0]

\* token.token = token.generate_token(); token.save(update_fields=['token', 'updated_at'])
regenerate(table, pk, new_token) ==
    [table EXCEPT ![pk].token = new_token]

\* MobileAppTokenViewSet.regenerate
MobileRegenerate(pk, new_token) ==
    /\ pk \in DOMAIN mobile_tokens
    /\ new_token \in generate_token(mobile_tokens, "mob_")
    /\ mobile_tokens' = regenerate(mobile_tokens, pk, new_token)
    /\ UNCHANGED <<api_tokens, model_permissions, usage_log, now, req, drf, metered, records, replace>>

\* APIClientTokenViewSet.regenerate
APIRegenerate(pk, new_token) ==
    /\ pk \in DOMAIN api_tokens
    /\ new_token \in generate_token(api_tokens, "api_")
    /\ api_tokens' = regenerate(api_tokens, pk, new_token)
    /\ UNCHANGED <<mobile_tokens, model_permissions, usage_log, now, req, drf, metered, records, replace>>

\* TokenUsageLogAdmin: the admin site refuses to add and to change ledger
\* entries, and leaves the deletion of the selected entries to the operator.
AdminDeleteLog(selected) ==
    /\ selected # {}
    /\ selected \subseteq DOMAIN usage_log
    /\ usage_log' = SelectSeq([i \in DOMAIN usage_log |->
                                  IF i \in selected THEN [usage_log[i] EXCEPT !.token_type = "deleted"]
                                  ELSE usage_log[i]],
                              LAMBDA entry : entry.token_type # "deleted")
    /\ UNCHANGED <<mobile_tokens, api_tokens, model_permissions, now, req, drf, metered, records, replace>>

\* ------------------------------------------------- the permissions calls

\* TokenModelPermission.MODEL_CHOICES (three of them)
MODEL_CHOICES == {"Word", "Book", "UserProgress"}

\* token.model_permissions.all()
model_permissions_all(table, pk) == {table[k] : k \in {k \in DOMAIN table : k[1] = pk}}

\* TokenModelPermissionSerializer(data=perm_data).is_valid(): model_name is a
\* choice field
serializer_is_valid(perm_data) == perm_data.model_name \in MODEL_CHOICES

\* objects.create that leaves can_read and can_list at the defaults of the model
objects_create_defaults(table, pk, perm_data) ==
    (<<pk, perm_data.model_name>> :> [perm_data EXCEPT !.can_read = TRUE, !.can_list = TRUE])
        @@ table

\* TokenModelPermission.objects.create(token=token, **perm_data)
objects_create(table, pk, perm_data) ==
    (<<pk, perm_data.model_name>> :> perm_data) @@ table

\* The call has read its request and run token.model_permissions.all().delete()
Cleared(kind, pk, permissions_data) ==
    [pc |-> kind, pk |-> pk, permissions_data |-> permissions_data, created |-> 0,
     before |-> model_permissions_all(model_permissions, pk), status |-> 0]

\* APIClientTokenViewSet.permissions, POST or PUT, up to the delete of the
\* existing entries
PermissionsClear(pk, permissions_data) ==
    /\ replace.pc = "idle"
    /\ pk \in DOMAIN api_tokens
    /\ model_permissions' = delete_permissions({pk})
    /\ replace' = Cleared("permissions", pk, permissions_data)
    /\ UNCHANGED <<mobile_tokens, api_tokens, usage_log, now, req, drf, metered, records>>

\* APIClientTokenViewSet.permissions: one round of the loop over
\* permissions_data, or the response after it.  The serializer has no `token`
\* field, so perm_data['token'] is dropped and save() inserts a row without
\* token_id: the insert raises IntegrityError and the call ends in a 500.
PermissionsCreate ==
    /\ replace.pc = "permissions"
    /\ LET perm_data == replace.permissions_data[replace.created + 1] IN
       replace' = IF replace.created = Len(replace.permissions_data)
                  THEN [replace EXCEPT !.pc = "done", !.status = 200]
                  ELSE IF ~serializer_is_valid(perm_data)
                  THEN [replace EXCEPT !.pc = "done", !.status = 400]
                  ELSE [replace EXCEPT !.pc = "done", !.status = 500]
    /\ UNCHANGED <<mobile_tokens, api_tokens, model_permissions, usage_log, now, req, drf,
                   metered, records>>

\* APIClientTokenUpdateSerializer.update with permissions_data (and
\* AdminAPIClientTokenViewSet.bulk_permissions_update for the token), up to the
\* delete of the existing entries
UpdateClear(pk, permissions_data) ==
    /\ replace.pc = "idle"
    /\ pk \in DOMAIN api_tokens
    /\ model_permissions' = delete_permissions({pk})
    /\ replace' = Cleared("update", pk, permissions_data)
    /\ UNCHANGED <<mobile_tokens, api_tokens, usage_log, now, req, drf, metered, records>>

\* APIClientTokenUpdateSerializer.update: one round of the loop over
\* permissions_data, or the response after it.  The insert raises
\* IntegrityError for a second entry of one model (unique_together) and for a
\* token row deleted meanwhile.
UpdateCreate ==
    /\ replace.pc = "update"
    /\ LET perm_data == replace.permissions_data[replace.created + 1] IN
       IF replace.created = Len(replace.permissions_data)
       THEN /\ replace' = [replace EXCEPT !.pc = "done", !.status = 200]
            /\ UNCHANGED model_permissions
       ELSE IF \/ <<replace.pk, perm_data.model_name>> \in DOMAIN model_permissions
               \/ replace.pk \notin DOMAIN api_tokens
       THEN /\ replace' = [replace EXCEPT !.pc = "done", !.status = 500]
            /\ UNCHANGED model_permissions
       ELSE /\ replace' = [replace EXCEPT !.created = @ + 1]
            /\ model_permissions' = objects_create(model_permissions, replace.pk, perm_data)
    /\ UNCHANGED <<mobile_tokens, api_tokens, usage_log, now, req, drf, metered, records>>

\* The operator has the response and may call again.
ReplaceReturn ==
    /\ replace.pc = "done"
    /\ replace' = NoReplace
    /\ UNCHANGED <<mobile_tokens, api_tokens, model_permissions, usage_log, now, req, drf,
                   metered, records>>

\* ------------------------------------------------------- the initial store

AllowAll == [model_name |-> "Word", can_create |-> TRUE, can_read |-> TRUE,
             can_update |-> TRUE, can_delete |-> TRUE, can_list |-> TRUE,
             restricted_fields |-> {}, readonly_fields |-> {}]
ListOnly == [AllowAll EXCEPT !.can_create = FALSE, !.can_read = FALSE,
                             !.can_update = FALSE, !.can_delete = FALSE]
DenyAll == [ListOnly EXCEPT !.can_list = FALSE]

\* The permission tables an API client token starts with: an entry for Word
\* (all bits, list only, no bit), an entry for another model only (Book with
\* all bits, UserProgress with no bit), no entry.
PermissionChoices ==
    { (<<APIId, "Word">> :> AllowAll), (<<APIId, "Word">> :> ListOnly),
      (<<APIId, "Word">> :> DenyAll),
      (<<APIId, "Book">> :> [AllowAll EXCEPT !.model_name = "Book"]),
      (<<APIId, "UserProgress">> :> [DenyAll EXCEPT !.model_name = "UserProgress"]),
      <<>> }

\* The settings a token is created with.  validity: expires_at and max_usage_count;
\* restriction: allowed_ips and allowed_endpoints; limits: the two rate limits.
ValidityChoices == {Null, 2} \X {Null, 0, 1}
RestrictionChoices == { <<{}, {}>>, <<{"10.0.0.1"}, {}>>, <<{}, {"/api/cruds/vocabulary/words/"}>> }
LimitChoices == { <<2, 2>>, <<1, 2>>, <<1, 1>> }

MobileRow(validity, allowed_ips) ==
    [id |-> MobileId, token |-> MobileSecret, name |-> "app", role |-> "user",
     status |-> "active", expires_at |-> validity[1], usage_count |-> 0,
     max_usage_count |-> validity[2], allowed_ips |-> allowed_ips]

APIRow(validity, restriction, limits) ==
    [id |-> APIId, token |-> APISecret, name |-> "partner", client_name |-> "partner",
     status |-> "active", expires_at |-> validity[1], usage_count |-> 0,
     max_usage_count |-> validity[2], allowed_ips |-> restriction[1],
     allowed_endpoints |-> restriction[2],
     rate_limit_per_hour |-> limits[1], rate_limit_per_day |-> limits[2]]

\* A profile departs from the unrestricted defaults in one group of settings.
OneGroup(validity, restriction, limits, permissions) ==
    Cardinality({g \in 1..4 :
        \/ g = 1 /\ validity # <<Null, Null>>
        \/ g = 2 /\ restriction # <<{}, {}>>
        \/ g = 3 /\ limits # <<2, 2>>
        \/ g = 4 /\ permissions # (<<APIId, "Word">> :> AllowAll)}) <= 1

InitRequests ==
    /\ usage_log = <<>>
    /\ now = 0
    /\ req = [r \in Reqs |-> Blank]
    /\ drf = [r \in Reqs |-> Null]
    /\ metered = [i \in TokenIds |-> 0]
    /\ records = [model_name \in {"Word", "UserProgress"} |-> <<DefaultRow(model_name)>>]
    /\ replace = NoReplace

\* The store holds one token, of either kind, freshly created by an operator.
Init ==
    /\ InitRequests
    /\ \/ /\ \E validity \in ValidityChoices, restriction \in RestrictionChoices :
                /\ validity[2] # 0     \* MobileAppTokenSerializer.validate_max_usage_count
                /\ restriction[2] = {}
                /\ OneGroup(validity, restriction, <<2, 2>>, <<APIId, "Word">> :> AllowAll)
                /\ mobile_tokens = (MobileId :> MobileRow(validity, restriction[1]))
          /\ api_tokens = <<>>
          /\ model_permissions = <<>>
       \/ /\ \E validity \in ValidityChoices, restriction \in RestrictionChoices,
                limits \in LimitChoices, permissions \in PermissionChoices :
                /\ OneGroup(validity, restriction, limits, permissions)
                /\ api_tokens = (APIId :> APIRow(validity, restriction, limits))
                /\ model_permissions = permissions
          /\ mobile_tokens = <<>>

BulkActions == {"activate", "deactivate", "revoke", "delete"}

\* One worker: requests are served one at a time, by slot 1, and clients stop
\* after MaxLog metered requests.  Operators act at any moment.
Next ==
    \/ \E request \in Requests : Len(usage_log) < MaxLog /\ ProcessRequest(1, request)
    \/ \E method \in Methods : ProcessView(1, method)
    \/ \E status \in {200, 404} : Handler(1, status)
    \/ ProcessResponse(1, "none")
    \/ Recycle(1)
    \/ Tick
    \/ \E pk \in TokenIds : MobileActivate(pk)
    \/ \E pk \in TokenIds : APIActivate(pk)
    \/ \E pk \in TokenIds : MobileRevoke(pk)
    \/ \E pk \in TokenIds : APIRevoke(pk)
    \/ \E token_ids \in SUBSET TokenIds, action_type \in BulkActions :
          MobileBulkAction(token_ids, action_type)
    \/ \E token_ids \in SUBSET TokenIds, action_type \in BulkActions :
          APIBulkAction(token_ids, action_type)
    \/ \E token_type \in {"mobile", "api"}, token_ids \in SUBSET TokenIds,
          action \in {"activate", "deactivate", "revoke"} :
          AdminTokenAction(token_type, token_ids, action)

Spec == Init /\ [][Next]_vars

\* ------------------------------------------------------ concurrent workers

\* The store of the concurrency runs: one unrestricted token with every capability.
InitConc ==
    /\ InitRequests
    /\ model_permissions = (<<APIId, "Word">> :> AllowAll)
    /\ \E limits \in LimitChoices :
          api_tokens = (APIId :> APIRow(<<Null, Null>>, <<{}, {}>>, limits))
    /\ mobile_tokens = <<>>

\* The traffic of the concurrency runs: the token's client lists words.
ConcRequests ==
    {request \in Requests :
        /\ request.token_value \in {MobileSecret, APISecret}
        /\ request.path = "/api/cruds/vocabulary/words/"
        /\ request.ip = "10.0.0.1"
        /\ ~request.authenticated}

\* NReq workers serve one request each, at the same time.
NextConc ==
    \/ \E r \in Reqs, request \in ConcRequests : ProcessRequest(r, request)
    \/ \E r \in Reqs : ProcessView(r, "GET")
    \/ \E r \in Reqs : Handler(r, 200)
    \/ \E r \in Reqs : ProcessResponse(r, "none")
    \/ Tick

SpecConc == InitConc /\ [][NextConc]_vars

\* The store of the usage cap runs: one token of either kind that may be used
\* once or twice.
InitCap ==
    /\ InitRequests
    /\ \E max_usage_count \in {1, 2} :
          \/ /\ mobile_tokens = (MobileId :> MobileRow(<<Null, max_usage_count>>, {}))
             /\ api_tokens = <<>>
             /\ model_permissions = <<>>
          \/ /\ api_tokens = (APIId :> APIRow(<<Null, max_usage_count>>, <<{}, {}>>, <<2, 2>>))
             /\ model_permissions = (<<APIId, "Word">> :> AllowAll)
             /\ mobile_tokens = <<>>

\* NReq workers serve one request each of the capped token, at the same time.
NextCap ==
    \/ \E r \in Reqs, request \in ConcRequests : ProcessRequest(r, request)
    \/ \E r \in Reqs : ProcessView(r, "GET")
    \/ \E r \in Reqs : Handler(r, 200)
    \/ \E r \in Reqs : ProcessResponse(r, "none")

SpecCap == InitCap /\ [][NextCap]_vars

\* The store of the metering runs: one unrestricted token of either kind.
InitMeter ==
    /\ InitRequests
    /\ \/ /\ mobile_tokens = (MobileId :> MobileRow(<<Null, Null>>, {}))
          /\ api_tokens = <<>>
          /\ model_permissions = <<>>
       \/ /\ api_tokens = (APIId :> APIRow(<<Null, Null>>, <<{}, {}>>, <<2, 2>>))
          /\ model_permissions = (<<APIId, "Word">> :> AllowAll)
          /\ mobile_tokens = <<>>

\* NReq workers serve one request each: through the middleware, or through a
\* view that authenticates with TokenBasedAuthentication.
NextMeter ==
    \/ \E r \in Reqs, request \in ConcRequests : ProcessRequest(r, request)
    \/ \E r \in Reqs : ProcessView(r, "GET")
    \/ \E r \in Reqs : Handler(r, 200)
    \/ \E r \in Reqs : ProcessResponse(r, "none")
    \/ \E r \in Reqs, request \in ConcRequests : Authenticate(r, request)
    \/ \E r \in Reqs : IncrementUsage(r)

SpecMeter == InitMeter /\ [][NextMeter]_vars

\* The three ways a token is metered, by NReq workers that take one call after
\* the other: the middleware, TokenBasedAuthentication, and the validation
\* endpoint.  Clients stop after MaxLog ledger entries and MaxLog metered calls.
NextValidate ==
    \/ \E r \in Reqs, request \in ConcRequests :
          Len(usage_log) < MaxLog /\ ProcessRequest(r, request)
    \/ \E r \in Reqs : ProcessView(r, "GET")
    \/ \E r \in Reqs : Handler(r, 200)
    \/ \E r \in Reqs : ProcessResponse(r, "none")
    \/ \E r \in Reqs, request \in ConcRequests :
          Len(usage_log) < MaxLog /\ Authenticate(r, request)
    \/ \E r \in Reqs, data \in ValidationData :
          metered[MobileId] + metered[APIId] < MaxLog /\ PostValidation(r, data)
    \/ \E r \in Reqs : IncrementUsage(r)
    \/ \E r \in Reqs : Recycle(r)

SpecValidate == InitMeter /\ [][NextValidate]_vars

\* The pipeline over a store whose writes can fail: one worker, every kind of
\* token and request, and a log_token_usage that fails in either statement.
NextFault ==
    \/ \E request \in Requests : Len(usage_log) < MaxLog /\ ProcessRequest(1, request)
    \/ \E method \in Methods : ProcessView(1, method)
    \/ \E status \in {200, 404} : Handler(1, status)
    \/ \E fault \in Faults : ProcessResponse(1, fault)
    \/ Recycle(1)

SpecFault == Init /\ [][NextFault]_vars

\* The calls metered so far, for all tokens.
Metered == metered[MobileId] + metered[APIId]

\* The ledger and everything that touches it: one worker serving the pipeline,
\* the DRF authentication and the validation endpoint, and the operators, who
\* delete tokens and use the admin site of the ledger.  Clients stop after
\* MaxLog metered calls.
NextLedger ==
    \/ \E request \in ConcRequests : Metered < MaxLog /\ ProcessRequest(1, request)
    \/ ProcessView(1, "GET")
    \/ Handler(1, 200)
    \/ ProcessResponse(1, "none")
    \/ \E request \in ConcRequests : Metered < MaxLog /\ Authenticate(1, request)
    \/ \E data \in ValidationData :
          Metered < MaxLog /\ PostValidation(1, data)
    \/ IncrementUsage(1)
    \/ Recycle(1)
    \/ \E token_ids \in SUBSET TokenIds, action_type \in BulkActions :
          MobileBulkAction(token_ids, action_type)
    \/ \E token_ids \in SUBSET TokenIds, action_type \in BulkActions :
          APIBulkAction(token_ids, action_type)
    \/ \E selected \in SUBSET (1..MaxLog) : AdminDeleteLog(selected)

SpecLedger == InitMeter /\ [][NextLedger]_vars

\* Rotation: one worker serves every kind of request for one unrestricted
\* token while operators rotate its secret and change its status.
NextRotate ==
    \/ \E request \in Requests : Len(usage_log) < MaxLog /\ ProcessRequest(1, request)
    \/ \E method \in Methods : ProcessView(1, method)
    \/ Handler(1, 200)
    \/ ProcessResponse(1, "none")
    \/ Recycle(1)
    \/ \E pk \in TokenIds, new_token \in Credentials : MobileRegenerate(pk, new_token)
    \/ \E pk \in TokenIds, new_token \in Credentials : APIRegenerate(pk, new_token)
    \/ \E pk \in TokenIds : MobileRevoke(pk)
    \/ \E pk \in TokenIds : APIRevoke(pk)
    \/ \E pk \in TokenIds : MobileActivate(pk)
    \/ \E pk \in TokenIds : APIActivate(pk)
    \/ \E token_ids \in SUBSET TokenIds, action_type \in BulkActions :
          MobileBulkAction(token_ids, action_type)
    \/ \E token_ids \in SUBSET TokenIds, action_type \in BulkActions :
          APIBulkAction(token_ids, action_type)

SpecRotate == InitMeter /\ [][NextRotate]_vars

\* ------------------------------------------------------- field restrictions

\* The field lists of a permission entry: none, one restricted field, one
\* read-only field.
FieldChoices(field) == { <<{}, {}>>, <<{field}, {}>>, <<{}, {field}>> }

FieldEntry(model_name, fields) ==
    [AllowAll EXCEPT !.model_name = model_name, !.restricted_fields = fields[1],
                     !.readonly_fields = fields[2]]

\* The store of the field runs: one unrestricted API client token with every
\* capability on Word and on UserProgress, and a choice of field lists on each.
InitView ==
    /\ InitRequests
    /\ mobile_tokens = <<>>
    /\ api_tokens = (APIId :> APIRow(<<Null, Null>>, <<{}, {}>>, <<2, 2>>))
    /\ \E word_fields \in FieldChoices("etymology"), progress_fields \in FieldChoices("status") :
          model_permissions = (<<APIId, "Word">> :> FieldEntry("Word", word_fields))
                              @@ (<<APIId, "UserProgress">> :>
                                      FieldEntry("UserProgress", progress_fields))

ViewPaths == {"/api/cruds/vocabulary/words/", "/api/cruds/vocabulary/words/1/",
              "/api/cruds/progress/user-progress/", "/api/cruds/progress/user-progress/1/"}

\* The traffic of the field runs: the token's client calls the two viewsets.
ViewRequests ==
    {[token_value |-> APISecret, ip |-> "10.0.0.1", path |-> path, authenticated |-> FALSE] :
        path \in ViewPaths}

\* One worker serves the client's requests one at a time.
NextView ==
    \/ \E request \in ViewRequests : Len(usage_log) < MaxLog /\ ProcessRequest(1, request)
    \/ \E method \in Methods \ {"HEAD", "OPTIONS"}, permitted \in BOOLEAN,
          data \in Payloads("Word") \cup Payloads("UserProgress") :
          GetResponse(1, method, data, permitted)
    \/ ProcessResponse(1, "none")
    \/ Recycle(1)

SpecView == InitView /\ [][NextView]_vars

\* The entries an operator submits: the three entries for Word, and an entry
\* whose model_name is not one of the choices.
PermissionData == {AllowAll, ListOnly, DenyAll, [AllowAll EXCEPT !.model_name = "Words"]}

MaxPermissions == 2

PermissionLists ==
    UNION {[1..n -> PermissionData] : n \in 0..MaxPermissions}

\* The store of the permission runs: one unrestricted API client token with a
\* choice of entries.
InitReplace ==
    /\ InitRequests
    /\ mobile_tokens = <<>>
    /\ api_tokens = (APIId :> APIRow(<<Null, Null>>, <<{}, {}>>, <<2, 2>>))
    /\ \E permissions \in PermissionChoices : model_permissions = permissions

\* The traffic of the permission runs: the token's client lists words.
ReplaceRequests ==
    {request \in ConcRequests : request.token_value = APISecret}

\* One worker serves the client's requests while an operator replaces the
\* permissions of the token.
NextReplace ==
    \/ \E request \in ReplaceRequests : Len(usage_log) < MaxLog /\ ProcessRequest(1, request)
    \/ \E method \in Methods : ProcessView(1, method)
    \/ Handler(1, 200)
    \/ ProcessResponse(1, "none")
    \/ Recycle(1)
    \/ \E pk \in TokenIds, permissions_data \in PermissionLists :
          PermissionsClear(pk, permissions_data)
    \/ PermissionsCreate
    \/ \E pk \in TokenIds, permissions_data \in PermissionLists : UpdateClear(pk, permissions_data)
    \/ UpdateCreate
    \/ ReplaceReturn

SpecReplace == InitReplace /\ [][NextReplace]_vars

\* The field runs with an operator who deletes the token between the stages
\* of a request.
NextOpen ==
    \/ NextView
    \/ \E token_ids \in SUBSET TokenIds : APIBulkAction(token_ids, "delete")

SpecOpen == InitView /\ [][NextOpen]_vars

\* ------------------------------------------------------------- properties

\* The validity rule as the specification words it.
Usable(token) ==
    /\ token.status = "active"
    /\ token.expires_at = Null \/ token.expires_at > now
    /\ token.max_usage_count = Null \/ token.usage_count < token.max_usage_count

\* The row a credential names, as a set (empty when no row matches).
Named(token_value) ==
    IF startswith(token_value, "mob_")
    THEN {mobile_tokens[i] : i \in get_by_token(mobile_tokens, token_value)}
    ELSE IF startswith(token_value, "api_")
    THEN {api_tokens[i] : i \in get_by_token(api_tokens, token_value)}
    ELSE {}

\* C1: revoked is terminal.  In every step, a token row whose status is revoked
\* and that stays in the store still has status revoked afterwards.
C1RevokedIsTerminal ==
    [][ /\ \A i \in DOMAIN mobile_tokens \cap DOMAIN mobile_tokens' :
              mobile_tokens[i].status = "revoked" => mobile_tokens'[i].status = "revoked"
        /\ \A i \in DOMAIN api_tokens \cap DOMAIN api_tokens' :
              api_tokens[i].status = "revoked" => api_tokens'[i].status = "revoked" ]_vars

\* C2: the authentication stage accepts a mob_/api_ token only if it is active,
\* not expired and below its usage cap.  For every request the stage examines
\* that names a stored token failing one of the three conditions, the answer is
\* 401 and no identity is attached.
C2AcceptsOnlyUsable ==
    \A request \in Requests : \A token \in Named(request.token_value) :
        (~skips_authentication(request) /\ ~Usable(token))
            => /\ process_request(request).pc = "response"
               /\ process_request(request).status = 401
               /\ process_request(request).token_data = NoToken

\* C3: default deny.  When the permission stage examines a request of an API
\* client token on a route that serves a model and the token, still in the
\* store, has no entry for that model, the request is answered 403 whatever its
\* method and the handler does not run.
C3DefaultDeny ==
    [][ \A r \in Reqs :
          ( /\ req[r].pc = "view"
            /\ req'[r] # req[r]
            /\ req[r].token_data.token_type = "api"
            /\ route_model(req[r].path) # "none"
            /\ req[r].token_data.token_id \in DOMAIN api_tokens
            /\ <<req[r].token_data.token_id, route_model(req[r].path)>>
                   \notin DOMAIN model_permissions )
          => /\ req'[r].pc = "response"
             /\ req'[r].status = 403
             /\ ~req'[r].handler_ran ]_vars

\* A token with no setting that restricts its use (the rate limits aside).
Unrestricted(token) ==
    /\ token.status = "active"
    /\ token.expires_at = Null
    /\ token.max_usage_count = Null
    /\ token.allowed_ips = {}
    /\ token.allowed_endpoints = {}

\* Ledger entries of an API client token that are at most `span` old.
EntriesWithin(token_id, span) ==
    Cardinality({i \in DOMAIN usage_log :
                    /\ usage_log[i].token_type = "api"
                    /\ usage_log[i].token_id = token_id
                    /\ now - usage_log[i].timestamp <= span})

Quiescent == \A r \in Reqs : req[r].pc \in {"idle", "done"}

\* C4: no lost update.  When every request has completed, each token's
\* usage_count is its initial value (0) plus the number of calls metered for it.
C4UsageCountIsExact ==
    Quiescent =>
        /\ \A i \in DOMAIN mobile_tokens : mobile_tokens[i].usage_count = metered[i]
        /\ \A i \in DOMAIN api_tokens : api_tokens[i].usage_count = metered[i]

\* C5: a rejected request costs nothing.  When the response hooks complete a
\* request answered 401 or 403 by one of the stages, the handler has not run and
\* no token's usage_count changes.
C5RejectionCostsNothing ==
    [][ \A r \in Reqs :
          (req[r].pc = "response" /\ req[r].status \in {401, 403} /\ req'[r].pc = "done")
             => /\ ~req[r].handler_ran
                /\ \A i \in DOMAIN mobile_tokens \cap DOMAIN mobile_tokens' :
                      mobile_tokens'[i].usage_count = mobile_tokens[i].usage_count
                /\ \A i \in DOMAIN api_tokens \cap DOMAIN api_tokens' :
                      api_tokens'[i].usage_count = api_tokens[i].usage_count ]_vars

\* C6: the sliding hourly window, requests one after the other.  With no request
\* in flight, a request of an unrestricted API client token whose daily limit is
\* not reached is accepted exactly when fewer than rate_limit_per_hour ledger
\* entries of the token are at most one hour old; and a request the stage
\* rejected leaves the ledger as it was.
C6SlidingWindow ==
    /\ [](\A request \in Requests : \A i \in DOMAIN api_tokens :
            ( /\ Quiescent
              /\ request.token_value = api_tokens[i].token
              /\ ~skips_authentication(request)
              /\ Unrestricted(api_tokens[i])
              /\ EntriesWithin(i, DAY) < api_tokens[i].rate_limit_per_day )
            => ( process_request(request).token_data # NoToken
                   <=> EntriesWithin(i, HOUR) < api_tokens[i].rate_limit_per_hour ))
    /\ [][ \A r \in Reqs :
             (req[r].pc = "response" /\ req[r].token_data = NoToken /\ req'[r].pc = "done")
                => usage_log' = usage_log ]_vars

\* C6 witness: the token has used its hourly limit, every entry is more than an
\* hour old, and a request arriving now was accepted.
C6Witness ==
    \E r \in Reqs : \E i \in DOMAIN api_tokens :
        /\ req[r].pc = "view"
        /\ req[r].token_data.token_type = "api"
        /\ req[r].token_data.token_id = i
        /\ req[r].start = now
        /\ EntriesWithin(i, MaxTime) = api_tokens[i].rate_limit_per_hour
        /\ EntriesWithin(i, HOUR) = 0

\* C7: a rate-limited request is answered 429.  Every request of an unrestricted
\* API client token that the stage examines while the hourly or the daily count
\* has reached its limit is answered 429 without reaching the handler.
C7RateLimitedIs429 ==
    \A request \in Requests : \A i \in DOMAIN api_tokens :
        ( /\ request.token_value = api_tokens[i].token
          /\ ~skips_authentication(request)
          /\ Unrestricted(api_tokens[i])
          /\ \/ EntriesWithin(i, HOUR) >= api_tokens[i].rate_limit_per_hour
             \/ EntriesWithin(i, DAY) >= api_tokens[i].rate_limit_per_day )
        => /\ process_request(request).pc = "response"
           /\ process_request(request).status = 429
           /\ ~process_request(request).handler_ran

\* The requests of an API client token that passed the rate limiter in the hour
\* that starts at `since`.
AcceptedIn(token_id, since) ==
    {r \in Reqs : /\ req[r].token_data.token_type = "api"
                  /\ req[r].token_data.token_id = token_id
                  /\ req[r].start \in since..(since + HOUR)}

\* C8: bounded overrun.  In every rolling hour, the requests of one API client
\* token that passed the limiter number at most rate_limit_per_hour plus the
\* requests that were in flight (passed, not yet in the ledger) when one of them
\* passed.
C8BoundedOverrun ==
    \A i \in DOMAIN api_tokens : \A since \in 0..MaxTime :
        \/ AcceptedIn(i, since) = {}
        \/ \E r \in AcceptedIn(i, since) :
              Cardinality(AcceptedIn(i, since))
                  <= api_tokens[i].rate_limit_per_hour + req[r].in_flight

\* C8 witness: more requests than the hourly limit passed within one hour, one
\* of them while another was in flight.
C8Witness ==
    \E i \in DOMAIN api_tokens : \E since \in 0..MaxTime :
        /\ Cardinality(AcceptedIn(i, since)) > api_tokens[i].rate_limit_per_hour
        /\ \E r \in AcceptedIn(i, since) : req[r].in_flight > 0

\* A prefixed credential that no row of the store holds.
Unknown(token_value) ==
    /\ startswith(token_value, "mob_") \/ startswith(token_value, "api_")
    /\ Named(token_value) = {}

\* C9 as claimed: every request that carries a prefixed credential no row holds
\* is answered 401, with no identity and without reaching the handler.
C9UnknownIs401Always ==
    \A request \in Requests :
        Unknown(request.token_value)
            => /\ process_request(request).pc = "response"
               /\ process_request(request).status = 401
               /\ process_request(request).token_data = NoToken

\* C9: on a path that is not exempt, for a request no earlier middleware has
\* authenticated, a prefixed credential no row holds is answered 401, with no
\* identity and without reaching the handler; a request answered 401 never ran
\* the handler.
C9UnknownIs401 ==
    /\ \A request \in Requests :
          ( /\ Unknown(request.token_value)
            /\ ~EXEMPT_PATHS(request.path)
            /\ ~request.authenticated )
          => /\ process_request(request).pc = "response"
             /\ process_request(request).status = 401
             /\ process_request(request).token_data = NoToken
             /\ ~process_request(request).handler_ran
    /\ \A r \in Reqs : req[r].status = 401 => req[r].pc = "response" /\ ~req[r].handler_ran

\* C9 witness: a request was answered 401 because no row holds its credential.
C9Witness ==
    \E r \in Reqs :
        /\ req[r].pc = "response"
        /\ req[r].status = 401
        /\ req[r].message \in {"Mobile token not found", "API token not found"}
        /\ req[r].token_data = NoToken
        /\ ~req[r].handler_ran

\* C10: a bearer credential with neither prefix passes through.  Every request
\* that carries one gets no error response and no token identity, and goes on
\* to the view.
C10OtherBearerPassesThrough ==
    \A request \in Requests :
        ( /\ request.token_value # NoBearer
          /\ ~startswith(request.token_value, "mob_")
          /\ ~startswith(request.token_value, "api_") )
        => /\ process_request(request).pc = "view"
           /\ process_request(request).status # 401
           /\ process_request(request).token_data = NoToken

\* C11: the IP allow-list answers 403.  For every request the stage examines
\* that names a stored token with a non-empty allowed_ips, sent with any
\* forwarded-for header and remote address whose resolved client address (first
\* forwarded entry if present, else the remote address) is not in the list, the
\* answer is 403 with no identity; a token with an empty allowed_ips is never
\* refused for its address.
C11ForeignIPIs403 ==
    \A request \in Requests : \A token \in Named(request.token_value) :
        \A x_forwarded_for \in ForwardedFor : \A remote_addr \in IPs :
            ( /\ ~skips_authentication(request)
              /\ request.ip = (IF Len(x_forwarded_for) > 0 THEN Head(x_forwarded_for)
                               ELSE remote_addr) )
            => /\ (token.allowed_ips # {} /\ request.ip \notin token.allowed_ips)
                     => /\ process_request(request).pc = "response"
                        /\ process_request(request).status = 403
                        /\ process_request(request).token_data = NoToken
               /\ token.allowed_ips = {}
                     => process_request(request).message # "IP address not allowed"

\* C12: the endpoint allow-list of an API client token matches by substring and
\* answers 403.  For every request the stage examines that names a stored API
\* token which is valid, is allowed from the client address and is within its
\* rate limits: when allowed_endpoints is non-empty the request goes on to the
\* view with the token identity exactly when some allowed string occurs in the
\* path, and is answered 403 otherwise; when allowed_endpoints is empty the
\* request is never refused for its endpoint.
C12EndpointSubstringOr403 ==
    \A request \in Requests : \A token \in Named(request.token_value) :
        ( /\ ~skips_authentication(request)
          /\ startswith(request.token_value, "api_")
          /\ is_valid(token)
          /\ token.allowed_ips = {} \/ request.ip \in token.allowed_ips
          /\ check_rate_limits(token).allowed )
        => /\ token.allowed_endpoints # {}
                 => IF \E endpoint \in token.allowed_endpoints :
                           endpoint_in_path(endpoint, request.path)
                    THEN /\ process_request(request).pc = "view"
                         /\ process_request(request).token_data # NoToken
                    ELSE /\ process_request(request).pc = "response"
                         /\ process_request(request).status = 403
           /\ token.allowed_endpoints = {}
                 => process_request(request).message # "Endpoint not allowed"

\* The capability bit the specification requires for an action.
required_bit(permission, action) ==
    CASE action = "list" -> permission.can_list
      [] action = "retrieve" -> permission.can_read
      [] action = "create" -> permission.can_create
      [] action \in {"update", "partial_update"} -> permission.can_update
      [] action = "destroy" -> permission.can_delete

\* C13: the capability bit decides.  Whenever the authorization stage is about
\* to examine a request of an API client token that is still in the store and
\* has a permission entry for the model the route serves, then for every list,
\* retrieve, create, update, partial update or delete the request goes on to
\* the handler exactly when the entry's bit for that action is true, and is
\* answered 403 otherwise.
C13BitDecides ==
    \A r \in Reqs : \A method \in Methods :
        ( /\ req[r].pc = "view"
          /\ req[r].token_data.token_type = "api"
          /\ req[r].token_data.token_id \in DOMAIN api_tokens
          /\ routed_action(method, req[r].path) # "none"
          /\ <<req[r].token_data.token_id, route_model(req[r].path)>>
                 \in DOMAIN model_permissions )
        => LET permission ==
                   model_permissions[<<req[r].token_data.token_id, route_model(req[r].path)>>]
           IN  IF required_bit(permission, routed_action(method, req[r].path))
               THEN process_view(req[r], method).pc = "handler"
               ELSE /\ process_view(req[r], method).pc = "response"
                    /\ process_view(req[r], method).status = 403

\* The permission entry of the token of a request for the model its route serves.
entry_of(slot) == model_permissions[<<slot.token_data.token_id, route_model(slot.path)>>]

\* A view call that answers a request of an API client token which has a
\* permission entry for the model the route serves.
AnswersWithEntry(r) ==
    /\ req[r].pc = "view"
    /\ req'[r].pc = "response"
    /\ req[r].token_data.token_type = "api"
    /\ <<req[r].token_data.token_id, route_model(req[r].path)>> \in DOMAIN model_permissions

\* C14: restricted fields are never shown.  In every view call that answers a
\* request of an API client token with a permission entry for the model the
\* route serves, no field of the entry's restricted_fields is in the response
\* payload, whichever action served the request.
C14RestrictedNeverShown ==
    [][ \A r \in Reqs :
          AnswersWithEntry(r) => req'[r].payload \cap entry_of(req[r]).restricted_fields = {} ]_vars

\* C15: read-only fields are ignored on writes and shown on reads.  In every
\* view call that answers a request of an API client token with a permission
\* entry for the model the route serves, for every field of the entry's
\* readonly_fields: a create stores the field's default, an update or partial
\* update leaves the stored value of the field as it was, and a list or
\* retrieve that was served has the field in its payload.
C15ReadonlyIgnoredOnWrite ==
    [][ \A r \in Reqs :
          AnswersWithEntry(r) =>
            LET model_name == route_model(req[r].path)
                action == req'[r].action
            IN  \A field \in entry_of(req[r]).readonly_fields \cap serializer_fields(model_name) :
                  /\ action = "create"
                        => records'[model_name][Len(records'[model_name])].values[field]
                              = DefaultRow(model_name).values[field]
                  /\ (action \in {"update", "partial_update"} /\ get_object(records[model_name]))
                        => records'[model_name][1].values[field]
                              = records[model_name][1].values[field]
                  /\ (action = "list" \/ (action = "retrieve" /\ get_object(records[model_name])))
                        => field \in req'[r].payload ]_vars

\* The token rows of the store, of both kinds.
Tokens ==
    {mobile_tokens[i] : i \in DOMAIN mobile_tokens} \cup {api_tokens[i] : i \in DOMAIN api_tokens}

\* The token has a usage cap (a positive max_usage_count).
Capped(token) == token.max_usage_count # Null /\ token.max_usage_count > 0

\* C16: the last call, then exhausted.  With one worker serving the requests:
\* a request that names a capped token with usage_count = max_usage_count - 1
\* and no other reason to refuse it passes the authentication stage; the
\* metering of a passed request raises the token's usage_count by one; the
\* usage_count of a capped token never exceeds its cap; and once usage_count
\* has reached the cap every request that names the token is rejected as
\* invalid, with no identity attached.
C16LastCallThenExhausted ==
    /\ [](\A request \in Requests : \A token \in Named(request.token_value) :
            (~skips_authentication(request) /\ Capped(token)) =>
               /\ ( /\ token.usage_count = token.max_usage_count - 1
                    /\ token.status = "active"
                    /\ token.expires_at = Null \/ token.expires_at > now
                    /\ token.allowed_ips = {} \/ request.ip \in token.allowed_ips
                    /\ startswith(request.token_value, "api_")
                          => /\ token.allowed_endpoints = {}
                                   \/ request.path \in token.allowed_endpoints
                             /\ check_rate_limits(token).allowed )
                    => /\ process_request(request).pc = "view"
                       /\ process_request(request).token_data.token_id = token.id
               /\ token.usage_count >= token.max_usage_count
                    => /\ process_request(request).pc = "response"
                       /\ process_request(request).status = 401
                       /\ process_request(request).message = "Token is expired or inactive"
                       /\ process_request(request).token_data = NoToken)
    /\ [](\A token \in Tokens : Capped(token) => token.usage_count <= token.max_usage_count)
    /\ [][ \A r \in Reqs :
              (req[r].pc = "response" /\ req'[r].pc = "done" /\ logs_usage(req[r])) =>
                 /\ \A i \in DOMAIN mobile_tokens \cap DOMAIN mobile_tokens' :
                        mobile_tokens'[i].usage_count = mobile_tokens[i].usage_count
                            + (IF req[r].token_data = [token_type |-> "mobile", token_id |-> i,
                                                       token_name |-> mobile_tokens[i].name]
                               THEN 1 ELSE 0)
                 /\ \A i \in DOMAIN api_tokens \cap DOMAIN api_tokens' :
                        api_tokens'[i].usage_count = api_tokens[i].usage_count
                            + (IF req[r].token_data = [token_type |-> "api", token_id |-> i,
                                                       token_name |-> api_tokens[i].name]
                               THEN 1 ELSE 0) ]_vars

\* A request was rejected because the only token of the store, active and not
\* expired, has used up its cap, after the call that used it up was metered.
C16Witness ==
    /\ req[1].pc = "response"
    /\ req[1].message = "Token is expired or inactive"
    /\ Len(usage_log) = 1
    /\ \E token \in Tokens :
          /\ Capped(token)
          /\ token.usage_count = token.max_usage_count
          /\ token.status = "active"
          /\ token.expires_at = Null \/ token.expires_at > now

\* C17: usage_count never decreases.  In every step, whichever of the pipeline,
\* the validation endpoint and the DRF authentication takes it, the usage_count
\* of every token row that stays in the store is at least what it was.
C17UsageCountMonotonic ==
    [][ /\ \A i \in DOMAIN mobile_tokens \cap DOMAIN mobile_tokens' :
              mobile_tokens'[i].usage_count >= mobile_tokens[i].usage_count
        /\ \A i \in DOMAIN api_tokens \cap DOMAIN api_tokens' :
              api_tokens'[i].usage_count >= api_tokens[i].usage_count ]_vars

\* C18: the validation endpoint counts every call.  The increment of a
\* successful validation call raises the token's usage_count by exactly one;
\* and when validation calls are the only calls made and all of them have
\* completed, each token's usage_count is the number of successful calls.
C18ValidationCountsEveryCall ==
    /\ [][ \A r \in Reqs :
              ( /\ req[r].pc = "increment_usage"
                /\ req[r].path = "/api/tokens/validate/"
                /\ req'[r].pc = "done" ) =>
                 /\ \A i \in DOMAIN mobile_tokens :
                        req[r].token_data = [token_type |-> "mobile", token_id |-> i,
                                             token_name |-> mobile_tokens[i].name]
                            => mobile_tokens'[i].usage_count = mobile_tokens[i].usage_count + 1
                 /\ \A i \in DOMAIN api_tokens :
                        req[r].token_data = [token_type |-> "api", token_id |-> i,
                                             token_name |-> api_tokens[i].name]
                            => api_tokens'[i].usage_count = api_tokens[i].usage_count + 1 ]_vars
    /\ []((Quiescent /\ usage_log = <<>>) =>
            /\ \A i \in DOMAIN mobile_tokens : mobile_tokens[i].usage_count = metered[i]
            /\ \A i \in DOMAIN api_tokens : api_tokens[i].usage_count = metered[i])

\* The response hooks complete the request of worker r.
Completes(r) == req[r].pc = "response" /\ req'[r].pc = "done"

C20FailureIsSwallowed ==
    /\ [](\A r \in Reqs : \A fault \in Faults :
            req[r].pc = "response" => process_response(req[r], fault).status = req[r].status)
    /\ [][ \A r \in Reqs :
              (req[r].pc = "response" /\ req'[r] # req[r]) => req'[r].pc = "done" ]_vars

\* A request that passed the authentication stage has completed although its
\* ledger entry could not be written.
C20Witness ==
    /\ req[1].pc = "done"
    /\ req[1].token_data # NoToken
    /\ usage_log = <<>>

\* C21: the ledger is append-only.  In every step the ledger after the step
\* starts with the ledger before it: entries are added at the end, and no
\* entry is changed or removed, whatever happens to the token it names.
C21LedgerAppendOnly ==
    [][ /\ Len(usage_log') >= Len(usage_log)
        /\ SubSeq(usage_log', 1, Len(usage_log)) = usage_log ]_vars

\* The credentials that authenticate as the token, for a request from an
\* address, on a path the authentication stage examines.
Authenticating(token, token_type, ip, path) ==
    {token_value \in Credentials :
        LET slot == process_request([token_value |-> token_value, ip |-> ip, path |-> path,
                                     authenticated |-> FALSE])
        IN  /\ slot.pc = "view"
            /\ slot.token_data.token_type = token_type
            /\ slot.token_data.token_id = token.id}

PresentsGoodToken(request, token) ==
    /\ request.token_value = token.token
    /\ Usable(token)
    /\ token.allowed_ips = {}
    /\ credentials_type(token.token) = "api" =>
          /\ token.allowed_endpoints = {}
          /\ check_rate_limits(token).allowed

\* The request goes on to the view with the identity of the token: its kind,
\* id and name, and the role of a mobile token or the client name of an API
\* client token.
ProceedsAs(request, token) ==
    LET token_type == credentials_type(token.token)
        token_data == validate_token(request.token_value, request.ip, request.path)
        slot == process_request(request)
    IN  /\ slot.pc = "view"
        /\ slot.status # 401
        /\ slot.token_data = [token_type |-> token_type, token_id |-> token.id,
                              token_name |-> token.name]
        /\ token_data.valid
        /\ token_type = "mobile" => token_data.role = token.role
        /\ token_type = "api" => token_data.client_name = token.client_name

\* C23 as stated: every request that presents the secret of a good token gets
\* the identity of the token attached and is not rejected.
C23GoodTokenAlwaysAttached ==
    \A request \in Requests : \A token \in Tokens :
        PresentsGoodToken(request, token) => ProceedsAs(request, token)

\* C23: on a path that is not exempt, for a request no earlier middleware has
\* authenticated, every request that presents the secret of an active, not
\* expired, not exhausted token without address or endpoint restrictions (an
\* API client token within its rate limits) goes on to the view with the
\* identity of the token attached; on an exempt path, or already authenticated,
\* it goes on to the view with no identity.
C23GoodTokenAttached ==
    \A request \in Requests : \A token \in Tokens :
        PresentsGoodToken(request, token) =>
            IF EXEMPT_PATHS(request.path) \/ request.authenticated
            THEN process_request(request).pc = "view"
                 /\ process_request(request).token_data = NoToken
            ELSE ProceedsAs(request, token)

\* C23 witness: a mobile token with an expiry date and a usage cap, neither
\* reached, authenticated a request.
C23Witness ==
    \E r \in Reqs : \E i \in DOMAIN mobile_tokens :
        /\ req[r].pc = "view"
        /\ req[r].token_data = [token_type |-> "mobile", token_id |-> i,
                                token_name |-> mobile_tokens[i].name]
        /\ mobile_tokens[i].expires_at > now
        /\ mobile_tokens[i].max_usage_count > mobile_tokens[i].usage_count

\* The body of the 401 response of process_request: 'error' and 'message'.
JsonResponse(slot) == [error |-> "Invalid token", message |-> slot.message]

\* C24: the 401 response does not tell the cause.  Any two requests that differ
\* in the credential only and are both answered 401 by the authentication
\* stage get the same response body.
C24FailureBodyIsGeneric ==
    \A request \in Requests : \A token_value \in Credentials :
        LET other == [request EXCEPT !.token_value = token_value] IN
        ( /\ process_request(request).status = 401
          /\ process_request(other).status = 401 )
        => JsonResponse(process_request(request)) = JsonResponse(process_request(other))

\* C25: the usage cap is never exceeded.  In every state, with requests of the
\* same token served at the same time, the usage_count of every token that has
\* a max_usage_count is at most its max_usage_count.
C25UsageWithinCap ==
    \A token \in Tokens : Capped(token) => token.usage_count <= token.max_usage_count

\* The capability bits of an entry that grant a method on a path: the bit of
\* the action the method is routed to (HEAD is served as GET), any bit for
\* OPTIONS.
Grants(permission, method, path) ==
    CASE method \in {"GET", "HEAD"} ->
            IF list_in_url_name(path) THEN permission.can_list ELSE permission.can_read
      [] method = "POST" -> permission.can_create
      [] method \in {"PUT", "PATCH"} -> permission.can_update
      [] method = "DELETE" -> permission.can_delete
      [] OTHER -> \/ permission.can_list \/ permission.can_read \/ permission.can_create
                  \/ permission.can_update \/ permission.can_delete

\* C26: no handler without a true bit.  Whenever the authorization stage lets
\* a request of an API client token on a route that serves a model go on to
\* the handler, the token has a permission entry for that model and a bit of
\* the entry that grants the method is true; with every bit false no method,
\* HEAD and OPTIONS included, reaches the handler.
C26HandlerNeedsTrueBit ==
    \A r \in Reqs : \A method \in Methods :
        ( /\ req[r].pc = "view"
          /\ req[r].token_data.token_type = "api"
          /\ route_model(req[r].path) # "none"
          /\ process_view(req[r], method).pc = "handler" )
        => /\ <<req[r].token_data.token_id, route_model(req[r].path)>> \in DOMAIN model_permissions
           /\ Grants(entry_of(req[r]), method, req[r].path)

C28ReplaceAllOrNothing ==
    [][ (replace.pc # "done" /\ replace'.pc = "done" /\ replace'.status = 400)
           => model_permissions_all(model_permissions', replace'.pk) = replace'.before ]_vars

\* The entries of the permissions call in progress: those the token had before
\* it, and those submitted.
OldOrNew ==
    replace.before \cup {replace.permissions_data[n] : n \in DOMAIN replace.permissions_data}

C29ValidatorsAgree ==
    \A data \in ValidationData :
        (data.endpoint # "" /\ data.ip_address # "" /\ validation_status(data) = 200)
        => LET slot == process_request([token_value |-> data.token, ip |-> data.ip_address,
                                        path |-> data.endpoint, authenticated |-> FALSE])
           IN  slot.pc = "view" /\ slot.status # 401

====
